---- MODULE Spec2Model ----
(***************************************************************************)
(* varlet-mcp: the versioned metadata cache (src/src/utils/api.ts) and the *)
(* API tools that read it (src/src/tools/api.ts).                          *)
(*                                                                         *)
(* A cache file holds the bytes cacheApi wrote for a version token.  Each  *)
(* call of cacheApi runs through its await points (readFile, fetch and     *)
(* json, mkdir and writeFile); calls of several tool invocations           *)
(* interleave at those points.  The registry, the disk and whoever else    *)
(* writes the cache directory are the environment.                         *)
(***************************************************************************)
EXTENDS Integers, Sequences, FiniteSets, TLC

(* ------------------------------ bounds --------------------------------- *)

\* number of tool invocations that can be in flight at once
NCalls == 2

\* longest directive base name drawn for the lookup specification
MaxBaseLen == 2

Calls == 1..NCalls

\* version tokens callers pass; "latest" is the symbolic one, the other a
\* concrete version the registry does not hold until it is published
Tokens == {"latest", "3.1.0"}

\* values the registry's dist-tags.latest pointer takes
RegistryVersions == {"3.0.0", "3.1.0"}

\* the JavaScript value undefined, as it prints in a template string
Undefined == "undefined"

(* ------------------------- JavaScript strings -------------------------- *)

CharAt(s, i) == SubSeq(s, i, i)

LowerChar(ch) ==
  CASE ch = "A" -> "a" [] ch = "B" -> "b" [] ch = "C" -> "c" [] ch = "D" -> "d"
    [] ch = "E" -> "e" [] ch = "F" -> "f" [] ch = "G" -> "g" [] ch = "H" -> "h"
    [] ch = "I" -> "i" [] ch = "J" -> "j" [] ch = "K" -> "k" [] ch = "L" -> "l"
    [] ch = "M" -> "m" [] ch = "N" -> "n" [] ch = "O" -> "o" [] ch = "P" -> "p"
    [] ch = "Q" -> "q" [] ch = "R" -> "r" [] ch = "S" -> "s" [] ch = "T" -> "t"
    [] ch = "U" -> "u" [] ch = "V" -> "v" [] ch = "W" -> "w" [] ch = "X" -> "x"
    [] ch = "Y" -> "y" [] ch = "Z" -> "z" [] OTHER -> ch

RECURSIVE toLowerCase(_)
toLowerCase(s) ==
  IF Len(s) = 0 THEN "" ELSE LowerChar(CharAt(s, 1)) \o toLowerCase(Tail(s))

startsWith(s, p) == Len(s) >= Len(p) /\ SubSeq(s, 1, Len(p)) = p

\* String.prototype.replace with a string pattern: the first occurrence only
RECURSIVE replaceFirst(_, _, _)
replaceFirst(s, ch, by) ==
  IF Len(s) = 0 THEN ""
  ELSE IF CharAt(s, 1) = ch THEN by \o Tail(s)
  ELSE CharAt(s, 1) \o replaceFirst(Tail(s), ch, by)

\* target.replace(/^v/, 'v-')
replaceLeadingV(s) == IF startsWith(s, "v") THEN "v-" \o Tail(s) ELSE s

(* --------------------- the embedded entity lists ----------------------- *)

BaselineTags ==
  <<
      [name |-> "var-app-bar", description |-> "App bar component"],
      [name |-> "var-back-top", description |-> "Back to top component"],
      [name |-> "var-badge", description |-> "Badge component"],
      [name |-> "var-button", description |-> "Button component"],
      [name |-> "var-card", description |-> "Card component"],
      [name |-> "var-cell", description |-> "Cell component"],
      [name |-> "var-checkbox", description |-> "Checkbox component"],
      [name |-> "var-chip", description |-> "Chip component"],
      [name |-> "var-col", description |-> "Grid column component"],
      [name |-> "var-collapse", description |-> "Collapse component"],
      [name |-> "var-collapse-item", description |-> "Collapse item component"],
      [name |-> "var-countdown", description |-> "Countdown component"],
      [name |-> "var-counter", description |-> "Counter component"],
      [name |-> "var-date-picker", description |-> "Date picker component"],
      [name |-> "var-dialog", description |-> "Dialog component"],
      [name |-> "var-divider", description |-> "Divider component"],
      [name |-> "var-drag", description |-> "Drag component"],
      [name |-> "var-ellipsis", description |-> "Ellipsis component"],
      [name |-> "var-fab", description |-> "Floating action button component"],
      [name |-> "var-form", description |-> "Form component"],
      [name |-> "var-icon", description |-> "Icon component"],
      [name |-> "var-image", description |-> "Image component"],
      [name |-> "var-image-preview", description |-> "Image preview component"],
      [name |-> "var-index-bar", description |-> "Index bar component"],
      [name |-> "var-index-anchor", description |-> "Index anchor component"],
      [name |-> "var-input", description |-> "Input component"],
      [name |-> "var-lazy", description |-> "Lazy load component"],
      [name |-> "var-list", description |-> "List component"],
      [name |-> "var-loading", description |-> "Loading component"],
      [name |-> "var-menu", description |-> "Menu component"],
      [name |-> "var-option", description |-> "Option component for Select"],
      [name |-> "var-overlay", description |-> "Overlay component"],
      [name |-> "var-pagination", description |-> "Pagination component"],
      [name |-> "var-picker", description |-> "Picker component"],
      [name |-> "var-popup", description |-> "Popup component"],
      [name |-> "var-progress", description |-> "Progress component"],
      [name |-> "var-pull-refresh", description |-> "Pull to refresh component"],
      [name |-> "var-radio", description |-> "Radio button component"],
      [name |-> "var-radio-group", description |-> "Radio group component"],
      [name |-> "var-rate", description |-> "Rate component"],
      [name |-> "var-result", description |-> "Result component"],
      [name |-> "var-row", description |-> "Grid row component"],
      [name |-> "var-select", description |-> "Select component"],
      [name |-> "var-skeleton", description |-> "Skeleton component"],
      [name |-> "var-slider", description |-> "Slider component"],
      [name |-> "var-snackbar", description |-> "Snackbar component"],
      [name |-> "var-space", description |-> "Space component"],
      [name |-> "var-step", description |-> "Step component"],
      [name |-> "var-steps", description |-> "Steps component"],
      [name |-> "var-sticky", description |-> "Sticky component"],
      [name |-> "var-swipe", description |-> "Swipe component"],
      [name |-> "var-swipe-item", description |-> "Swipe item component"],
      [name |-> "var-switch", description |-> "Switch component"],
      [name |-> "var-tab", description |-> "Tab component"],
      [name |-> "var-tab-item", description |-> "Tab item component"],
      [name |-> "var-table", description |-> "Table component"],
      [name |-> "var-tabs", description |-> "Tabs component"],
      [name |-> "var-tabs-items", description |-> "Tabs items component"],
      [name |-> "var-time-picker", description |-> "Time picker component"],
      [name |-> "var-tooltip", description |-> "Tooltip component"],
      [name |-> "var-uploader", description |-> "Uploader component"],
      [name |-> "var-watermark", description |-> "Watermark component"]
  >>

BaselineAttributes ==
  << [name |-> "v-ripple", description |-> "Ripple effect directive",
      docUrl |-> "https://varlet.gitee.io/varlet-ui/#/en-US/ripple"] >>

FallbackTags ==
  <<
      [name |-> "var-button", description |-> "Button component"],
      [name |-> "var-card", description |-> "Card component"],
      [name |-> "var-input", description |-> "Input component"]
  >>

FallbackAttributes ==
  << [name |-> "v-ripple", description |-> "Ripple effect directive"] >>

\* the version the fallback document carries for the token "latest"
FallbackLatest == "3.11.1"

\* mutant: the fallback carries the requested token verbatim, "latest" too
fallbackData_Verbatim(version) ==
  [version |-> version, html |-> [list |-> "fallback"]]

\* mutant: the fallback carries the literal of line 161 whatever was asked for
fallbackData_Literal(version) ==
  [version |-> "3.11.1", html |-> [list |-> "fallback"]]

\* the two object literals cacheApi serialises; html names the embedded
\* entity lists, which Html expands
webTypesData(realVersion) ==
  [version |-> realVersion, html |-> [list |-> "baseline"]]

fallbackData(version) ==
  [version |-> IF version = "latest" THEN FallbackLatest ELSE version,
   html |-> [list |-> "fallback"]]

Html(h) ==
  CASE h.list = "baseline" ->
         [tags |-> BaselineTags, attributes |-> BaselineAttributes]
    [] h.list = "fallback" ->
         [tags |-> FallbackTags, attributes |-> FallbackAttributes]
    [] OTHER -> [tags |-> h.tags, attributes |-> h.attributes]

(* ------------------------------- JSON ---------------------------------- *)

\* what a cache file, or a value cacheApi resolves with, can hold
Absent == [kind |-> "absent"]
Garbage == [kind |-> "garbage"]
Truncated == [kind |-> "truncated"]

\* JSON.stringify drops a property whose value is undefined
JSONstringify(obj) ==
  [kind |-> "json",
   text |-> IF obj.version = Undefined THEN [html |-> obj.html] ELSE obj]

ParseFails(bytes) == bytes.kind # "json"

\* JSON.parse of bytes that are JSON; reading a missing property gives undefined
JSONparse(bytes) ==
  [version |-> IF "version" \in DOMAIN bytes.text
                 THEN bytes.text.version ELSE Undefined,
   tags |-> Html(bytes.text.html).tags,
   attributes |-> Html(bytes.text.html).attributes]

(* ------------------------- the lookup tools ---------------------------- *)

\* Array.prototype.find over entries, by lower-cased name: the index of the
\* first match, 0 when there is none
RECURSIVE findFrom(_, _, _)
findFrom(entries, target, i) ==
  IF i > Len(entries) THEN 0
  ELSE IF toLowerCase(entries[i].name) = target THEN i
  ELSE findFrom(entries, target, i + 1)

find(entries, target) == findFrom(entries, target, 1)

componentTarget(componentName) ==
  LET target == toLowerCase(replaceFirst(componentName, "-", ""))
  IN  IF ~startsWith(target, "var") THEN "var-" \o target ELSE target

\* mutant: the branch for a name given as "vripple" is missing
directiveTarget_NoMalformed(directiveName) ==
  LET target == toLowerCase(directiveName)
  IN  IF ~startsWith(target, "v-") THEN "v-" \o target ELSE target

directiveTarget(directiveName) ==
  LET target == toLowerCase(directiveName)
  IN  IF ~startsWith(target, "v") THEN "v-" \o target
      ELSE IF ~startsWith(target, "v-") THEN replaceLeadingV(target)
      ELSE target

\* how a handler ends: a thrown exception, a not-found text, an entry's JSON
Exception(error) == [kind |-> "exception", error |-> error]

NotFound(what, target, version) ==
  [kind |-> "notfound", what |-> what, target |-> target, version |-> version]

Found(entry) == [kind |-> "entry", entry |-> entry]

\* the three handlers, from the point where `await cacheApi(version)` has
\* resolved with bytes
get_varlet_api_by_version(version, bytes) ==
  [kind |-> "text", text |-> "Downloaded and cached @varlet/ui@" \o version]

\* the names get_varlet_components_list has in its array literal
components ==
  <<"Button", "Card", "Cell", "Checkbox", "Dialog", "Divider", "Fab",
    "Form", "Icon", "Image", "Input", "List", "Loading", "Menu",
    "Overlay", "Picker", "Popup", "Progress", "Radio", "Rate", "Select",
    "Slider", "Snackbar", "Step", "Sticky", "Switch", "Tab", "Table",
    "Tooltip", "Uploader">>

\* the handler's text, one line per name; it reads neither cache nor registry
get_varlet_components_list(version) ==
  [kind |-> "text", version |-> version,
   lines |-> [i \in 1..Len(components) |->
                "var-" \o toLowerCase(components[i])]]

\* mutant: the handler reads the tag without the `if (!tag)` check
get_component_api_by_version_Unchecked(componentName, version, bytes) ==
  IF ParseFails(bytes) THEN Exception("SyntaxError")
  ELSE LET api == JSONparse(bytes)
           target == componentTarget(componentName)
           i == find(api.tags, target)
       IN  IF i = 0 THEN Exception("TypeError") ELSE Found(api.tags[i])

get_component_api_by_version(componentName, version, bytes) ==
  IF ParseFails(bytes) THEN Exception("SyntaxError")
  ELSE LET api == JSONparse(bytes)
           target == componentTarget(componentName)
           i == find(api.tags, target)
       IN  IF i = 0 THEN NotFound("Component", target, version)
           ELSE Found(api.tags[i])

get_directive_api_by_version(directiveName, version, bytes) ==
  IF ParseFails(bytes) THEN Exception("SyntaxError")
  ELSE LET api == JSONparse(bytes)
           target == directiveTarget(directiveName)
           i == find(api.attributes, target)
       IN  IF i = 0 THEN NotFound("Directive", target, version)
           ELSE Found(api.attributes[i])

(* ----------------------------- registry -------------------------------- *)

NetError == [kind |-> "neterr"]

\* the keys of the package document's `versions` while the pointer is ptr:
\* the releases up to the one it points at
Versions(ptr) == IF ptr = "3.0.0" THEN {"3.0.0"} ELSE RegistryVersions

\* what `fetch` + `json()` can meet while the registry's pointer is `ptr`:
\* no connection, a body that is not JSON, the package document, an error
\* object without dist-tags, a document whose dist-tags has no latest
Responses(ptr) ==
  { NetError,
    [kind |-> "notjson", ok |-> FALSE],
    [kind |-> "json", ok |-> TRUE, distTags |-> TRUE, latest |-> ptr,
     versions |-> Versions(ptr)],
    [kind |-> "json", ok |-> FALSE, distTags |-> FALSE, latest |-> Undefined,
     versions |-> {}],
    [kind |-> "json", ok |-> TRUE, distTags |-> TRUE, latest |-> Undefined,
     versions |-> Versions(ptr)] }

NoResponse == [kind |-> "none"]

\* the try block of cacheApi throws before realVersion is known
Throws(resp, version) ==
  \/ resp.kind = "neterr"
  \/ resp.kind = "notjson"
  \/ version = "latest" /\ ~resp.distTags

\* mutant: the registry's pointer is used for a concrete version too
realVersion_Pointer(resp, version) == resp.latest

realVersion(resp, version) ==
  IF version = "latest" THEN resp.latest ELSE version

(* ------------------------------- state --------------------------------- *)

VARIABLES
  disk,    \* cache directory: version token -> bytes of varlet-<token>.json
  latest,  \* the registry's dist-tags.latest
  call,    \* per invocation slot: where its cacheApi call stands
  out,     \* the return of cacheApi or clearCache that has just happened
  probe    \* the most recent lookup on a cached version

vars == <<disk, latest, call, out, probe>>

NoBytes == [kind |-> "none"]

NoPred == [kind |-> "none"]

\* pc: idle, fetch (registry request in flight), write (mkdir/writeFile
\* issued), writing (file opened, data not yet in it), unlinked (the same,
\* the open file no longer in the directory).  seen is what readFile
\* met, fetches counts the call's registry requests, pred is the return this
\* call immediately succeeds, if any.
IdleCall ==
  [pc |-> "idle", version |-> "", realVersion |-> Undefined, fetches |-> 0,
   seen |-> Absent, pred |-> NoPred]

NoOut ==
  [version |-> "", bytes |-> NoBytes, tier |-> "none", wrote |-> FALSE,
   fetches |-> 0, resp |-> NoResponse, seen |-> Absent, pred |-> NoPred]

NoProbe ==
  [tool |-> "none", name |-> "", version |-> "", bytes |-> NoBytes,
   result |-> [kind |-> "none"]]

Init ==
  /\ disk = [v \in Tokens |-> Absent]
  /\ latest = "3.0.0"
  /\ call = [c \in Calls |-> IdleCall]
  /\ out = NoOut
  /\ probe = NoProbe

_CACHE_FILE(version) == version

\* a step of call c, or of the environment (c = 0), ends any immediate
\* succession the other calls were in
Others(c, mine) ==
  [d \in Calls |-> IF d = c THEN mine ELSE [call[d] EXCEPT !.pred = NoPred]]

\* a step that returns nothing: what had just returned is no longer the latest
\* thing to have happened
Step(c, mine) ==
  /\ call' = Others(c, mine)
  /\ out' = NoOut

\* cacheApi resolves with bytes
Return(c, me, bytes, tier, wrote, resp) ==
  /\ out' = [version |-> me.version, bytes |-> bytes, tier |-> tier,
             wrote |-> wrote, fetches |-> me.fetches, resp |-> resp,
             seen |-> me.seen, pred |-> me.pred]
  /\ call' = Others(c, IdleCall)

\* clearCache resolves, the directory removed or the failure logged
Cleared(ok) == [NoOut EXCEPT !.tier = IF ok THEN "cleared" ELSE "clear-failed"]

\* what a call for version starts immediately after: a return of cacheApi for
\* the same version, a clearCache that removed the directory, or neither
Preceding(version) ==
  IF out.tier = "cleared"
    THEN [kind |-> "cleared", bytes |-> NoBytes, cached |-> FALSE]
  ELSE IF out.tier # "none" /\ out.version = version
    THEN [kind |-> "pred", bytes |-> out.bytes,
          cached |-> out.tier = "cache" \/ out.wrote]
  ELSE NoPred

(* ------------------------------ cacheApi ------------------------------- *)

\* mutant: the cache file is never read
CacheRead_Miss(c, version) ==
  /\ call[c].pc = "idle"
  /\ Step(c, [IdleCall EXCEPT !.pc = "fetch", !.version = version,
                              !.seen = disk[_CACHE_FILE(version)],
                              !.fetches = 1])
  /\ UNCHANGED <<disk, latest, probe>>

\* mutant: the token "latest" always asks the registry, whatever is cached
CacheRead_LatestBypass(c, version) ==
  /\ call[c].pc = "idle"
  /\ LET cachedData == IF version = "latest" THEN Absent
                       ELSE disk[_CACHE_FILE(version)]
         me == [IdleCall EXCEPT
                  !.version = version,
                  !.seen = cachedData,
                  !.pred = Preceding(version)]
     IN  IF cachedData # Absent
           THEN /\ Return(c, me, cachedData, "cache", FALSE, NoResponse)
                /\ UNCHANGED <<disk, latest, probe>>
           ELSE /\ Step(c, [me EXCEPT !.pc = "fetch", !.fetches = 1])
                /\ UNCHANGED <<disk, latest, probe>>

\* lines 18-28: readFile of the version's cache file; a hit returns its bytes,
\* a miss goes on to ask the registry
CacheRead(c, version) ==
  /\ call[c].pc = "idle"
  /\ LET cachedData == disk[_CACHE_FILE(version)]
         me == [IdleCall EXCEPT
                  !.version = version,
                  !.seen = cachedData,
                  !.pred = Preceding(version)]
     IN  IF cachedData # Absent
           THEN /\ Return(c, me, cachedData, "cache", FALSE, NoResponse)
                /\ UNCHANGED <<disk, latest, probe>>
           ELSE /\ Step(c, [me EXCEPT !.pc = "fetch", !.fetches = 1])
                /\ UNCHANGED <<disk, latest, probe>>

\* mutant: the catch block stores the fallback before returning it
Respond_CachesFallback(c, resp) ==
  /\ call[c].pc = "fetch"
  /\ IF Throws(resp, call[c].version)
       THEN /\ disk' = [disk EXCEPT ![_CACHE_FILE(call[c].version)] =
                                      JSONstringify(
                                        fallbackData(call[c].version))]
            /\ Return(c, call[c], JSONstringify(fallbackData(call[c].version)),
                      "fallback", FALSE, resp)
            /\ UNCHANGED <<latest, probe>>
       ELSE /\ Step(c, [call[c] EXCEPT
                         !.pc = "write",
                         !.realVersion = realVersion(resp, call[c].version)])
            /\ UNCHANGED <<disk, latest, probe>>

\* mutant: the catch block rethrows instead of building the fallback
Respond_Rethrow(c, resp) ==
  /\ call[c].pc = "fetch"
  /\ IF Throws(resp, call[c].version)
       THEN /\ Return(c, call[c], [kind |-> "rejected"], "fallback", FALSE,
                      resp)
            /\ UNCHANGED <<disk, latest, probe>>
       ELSE /\ Step(c, [call[c] EXCEPT
                         !.pc = "write",
                         !.realVersion = realVersion(resp, call[c].version)])
            /\ UNCHANGED <<disk, latest, probe>>

\* lines 30-41 and 153-181: the registry answers (or the request fails); a
\* throw inside the try block returns the fallback document
Respond(c, resp) ==
  /\ call[c].pc = "fetch"
  /\ IF Throws(resp, call[c].version)
       THEN /\ Return(c, call[c], JSONstringify(fallbackData(call[c].version)),
                      "fallback", FALSE, resp)
            /\ UNCHANGED <<disk, latest, probe>>
       ELSE /\ Step(c, [call[c] EXCEPT
                         !.pc = "write",
                         !.realVersion = realVersion(resp, call[c].version)])
            /\ UNCHANGED <<disk, latest, probe>>

\* mutant: the pointer is looked at again when the document is serialised
jsonData_Reread(me) ==
  JSONstringify(webTypesData(IF me.version = "latest" THEN latest
                             ELSE me.realVersion))

jsonData(me) == JSONstringify(webTypesData(me.realVersion))

\* mutant: mkdir makes the cache directory anew, dropping what it held
WriteOpen_NewDirectory(c, ok) ==
  /\ call[c].pc = "write"
  /\ IF ok
       THEN /\ disk' = [v \in Tokens |->
                         IF v = _CACHE_FILE(call[c].version) THEN Truncated
                         ELSE Absent]
            /\ Step(c, [call[c] EXCEPT !.pc = "writing"])
            /\ UNCHANGED <<latest, probe>>
       ELSE /\ Return(c, call[c], jsonData(call[c]), "registry", FALSE,
                      NoResponse)
            /\ UNCHANGED <<disk, latest, probe>>

\* lines 143-150: mkdir, then writeFile opens the cache file, which empties
\* it; either can fail, which is logged and the document returned
WriteOpen(c, ok) ==
  /\ call[c].pc = "write"
  /\ IF ok
       THEN /\ disk' = [disk EXCEPT ![_CACHE_FILE(call[c].version)] = Truncated]
            /\ Step(c, [call[c] EXCEPT !.pc = "writing"])
            /\ UNCHANGED <<latest, probe>>
       ELSE /\ Return(c, call[c], jsonData(call[c]), "registry", FALSE,
                      NoResponse)
            /\ UNCHANGED <<disk, latest, probe>>

\* mutant: the document is written to the file of the resolved version
WriteFinish_KeyedByRealVersion(c, ok) ==
  /\ call[c].pc \in {"writing", "unlinked"}
  /\ disk' = IF ok /\ call[c].pc = "writing" /\ call[c].realVersion \in Tokens
               THEN [disk EXCEPT ![_CACHE_FILE(call[c].realVersion)] =
                                    JSONstringify(
                                      webTypesData(call[c].realVersion))]
               ELSE disk
  /\ Return(c, call[c], JSONstringify(webTypesData(call[c].realVersion)),
            "registry", ok /\ call[c].pc = "writing", NoResponse)
  /\ UNCHANGED <<latest, probe>>

\* lines 146-152: writeFile completes with the whole document in the file,
\* or fails part-way; cacheApi returns the document either way.  What is
\* written to a file that clearCache unlinked meanwhile is in no cache file.
WriteFinish(c, ok) ==
  /\ call[c].pc \in {"writing", "unlinked"}
  /\ disk' = IF ok /\ call[c].pc = "writing"
               THEN [disk EXCEPT ![_CACHE_FILE(call[c].version)] =
                                    jsonData(call[c])]
               ELSE disk
  /\ Return(c, call[c], jsonData(call[c]), "registry",
            ok /\ call[c].pc = "writing", NoResponse)
  /\ UNCHANGED <<latest, probe>>

\* the calls after the directory went: a file being written is unlinked
Unlinked ==
  [d \in Calls |->
     [call[d] EXCEPT !.pc = IF @ = "writing" THEN "unlinked" ELSE @,
                     !.pred = NoPred]]

\* mutant: clearCache resolves without removing anything
clearCache_LeavesRecords(ok) ==
  /\ call' = Others(0, IdleCall)
  /\ out' = Cleared(ok)
  /\ UNCHANGED <<disk, latest, probe>>

\* lines 184-191: rmdir of the cache directory, files and all; a failure is
\* logged
clearCache(ok) ==
  /\ disk' = IF ok THEN [v \in Tokens |-> Absent] ELSE disk
  /\ call' = IF ok THEN Unlinked ELSE Others(0, IdleCall)
  /\ out' = Cleared(ok)
  /\ UNCHANGED <<latest, probe>>

(* ---------------------------- environment ------------------------------ *)

\* a release moves dist-tags.latest
RegistryPublish(v) ==
  /\ v # latest
  /\ latest' = v
  /\ Step(0, IdleCall)
  /\ UNCHANGED <<disk, probe>>

\* something overwrites a cache file with bytes that are not JSON
CorruptRecord(v) ==
  /\ disk[v] # Garbage
  /\ disk' = [disk EXCEPT ![v] = Garbage]
  /\ Step(0, IdleCall)
  /\ UNCHANGED <<latest, probe>>

Next ==
  \/ \E c \in Calls, version \in Tokens : CacheRead(c, version)
  \/ \E c \in Calls, resp \in Responses(latest) : Respond(c, resp)
  \/ \E c \in Calls, ok \in BOOLEAN : WriteOpen(c, ok)
  \/ \E c \in Calls, ok \in BOOLEAN : WriteFinish(c, ok)
  \/ \E ok \in BOOLEAN : clearCache(ok)
  \/ \E v \in RegistryVersions : RegistryPublish(v)
  \/ \E v \in Tokens : CorruptRecord(v)

Spec == Init /\ [][Next]_vars

\* The same, with the scheduling the code can count on: a call that has issued
\* mkdir/writeFile gets the file system's answer.  Nothing bounds the wait for
\* the registry (line 33 passes fetch no signal and sets no timer), so the
\* response is not among the steps that must happen.
SpecLive ==
  /\ Spec
  /\ \A c \in Calls :
       /\ WF_vars(\E ok \in BOOLEAN : WriteOpen(c, ok))
       /\ WF_vars(\E ok \in BOOLEAN : WriteFinish(c, ok))

(* ---------------- the lookup tools on a cached version ----------------- *)

\* The lookup specification draws a cache directory and runs one handler on
\* it.

\* get_component_api_by_version, whole, for a version whose cache file
\* exists: cacheApi returns the file's bytes and the handler looks the name up
ComponentLookup(componentName, version) ==
  /\ probe = NoProbe
  /\ disk[_CACHE_FILE(version)] # Absent
  /\ LET bytes == disk[_CACHE_FILE(version)]
     IN  probe' = [tool |-> "get_component_api_by_version",
                   name |-> componentName, version |-> version,
                   bytes |-> bytes,
                   result |-> get_component_api_by_version(componentName,
                                                           version, bytes)]
  /\ UNCHANGED <<disk, latest, call, out>>

\* get_directive_api_by_version, likewise
DirectiveLookup(directiveName, version) ==
  /\ probe = NoProbe
  /\ disk[_CACHE_FILE(version)] # Absent
  /\ LET bytes == disk[_CACHE_FILE(version)]
     IN  probe' = [tool |-> "get_directive_api_by_version",
                   name |-> directiveName, version |-> version,
                   bytes |-> bytes,
                   result |-> get_directive_api_by_version(directiveName,
                                                           version, bytes)]
  /\ UNCHANGED <<disk, latest, call, out>>

\* get_varlet_components_list, then get_component_api_by_version with the
\* i-th name of the list, for a version whose cache file exists
ListedLookup(i, version) ==
  /\ probe = NoProbe
  /\ disk[_CACHE_FILE(version)] # Absent
  /\ LET bytes == disk[_CACHE_FILE(version)]
         componentName == get_varlet_components_list(version).lines[i]
     IN  probe' = [tool |-> "get_component_api_by_version",
                   name |-> componentName, version |-> version,
                   bytes |-> bytes,
                   result |-> get_component_api_by_version(componentName,
                                                           version, bytes)]
  /\ UNCHANGED <<disk, latest, call, out>>

(* inputs of the lookup specification *)

UpperChar(ch) ==
  CASE ch = "a" -> "A" [] ch = "b" -> "B" [] ch = "c" -> "C" [] ch = "d" -> "D"
    [] ch = "e" -> "E" [] ch = "f" -> "F" [] ch = "g" -> "G" [] ch = "h" -> "H"
    [] ch = "i" -> "I" [] ch = "j" -> "J" [] ch = "k" -> "K" [] ch = "l" -> "L"
    [] ch = "m" -> "M" [] ch = "n" -> "N" [] ch = "o" -> "O" [] ch = "p" -> "P"
    [] ch = "q" -> "Q" [] ch = "r" -> "R" [] ch = "s" -> "S" [] ch = "t" -> "T"
    [] ch = "u" -> "U" [] ch = "v" -> "V" [] ch = "w" -> "W" [] ch = "x" -> "X"
    [] ch = "y" -> "Y" [] ch = "z" -> "Z" [] OTHER -> ch

RECURSIVE CaseVariants(_)
CaseVariants(s) ==
  IF Len(s) = 0 THEN {""}
  ELSE {h \o t : h \in {CharAt(s, 1), UpperChar(CharAt(s, 1))},
                 t \in CaseVariants(Tail(s))}

BaseAlphabet == {"v", "r", "-"}

RECURSIVE Strings(_)
Strings(n) ==
  IF n = 0 THEN {""}
  ELSE LET S == Strings(n - 1)
       IN  S \cup {s \o ch : s \in S, ch \in BaseAlphabet}

\* directive base names: what follows the v- marker in an entry's name; they
\* begin with a letter
Bases == {b \in Strings(MaxBaseLen) : b # "" /\ ~startsWith(b, "-")}

DirectiveEntry(b) == [name |-> "v-" \o b, description |-> "Directive " \o b]

\* documents another writer of the cache directory left: one directive, alone
\* or after v-ripple
GivenDocs ==
  { JSONstringify([version |-> "3.0.0",
                   html |-> [list |-> "given", tags |-> FallbackTags,
                             attributes |-> a]]) :
      a \in {<<DirectiveEntry(b)>> : b \in Bases}
            \cup {BaselineAttributes \o <<DirectiveEntry(b)>> : b \in Bases} }

CachedContents ==
  {Garbage, Truncated}
  \cup {JSONstringify(webTypesData(v)) : v \in RegistryVersions \cup {Undefined}}
  \cup GivenDocs

ComponentQueries ==
  {"Button", "button", "BUTTON", "var-button", "Var-Button", "date-picker",
   "Date-Picker", "var-date-picker", "card", "Foo", "var-foo"}

DirectiveQueries ==
  {"ripple", "Ripple", "vripple", "v-ripple", "hover"}
  \cup UNION { CaseVariants(b) \cup CaseVariants("v-" \o b)
               \cup CaseVariants("v" \o b) : b \in Bases }

InitLookup ==
  /\ disk \in { [v \in Tokens |-> IF v = w THEN b ELSE Absent] :
                  w \in Tokens, b \in CachedContents }
  /\ latest = "3.0.0"
  /\ call = [c \in Calls |-> IdleCall]
  /\ out = NoOut
  /\ probe = NoProbe

NextLookup ==
  \/ \E n \in ComponentQueries, version \in Tokens : ComponentLookup(n, version)
  \/ \E n \in DirectiveQueries, version \in Tokens : DirectiveLookup(n, version)
  \/ \E i \in 1..Len(components), version \in Tokens : ListedLookup(i, version)

SpecLookup == InitLookup /\ [][NextLookup]_vars

(* ------------------------------- claims -------------------------------- *)

\* cacheApi has just returned
Returned == out.tier \in {"cache", "registry", "fallback"}

\* the document a returned value parses to is the static fallback for version
IsFallbackFor(bytes, version) ==
  /\ ~ParseFails(bytes)
  /\ LET api == JSONparse(bytes)
     IN  /\ api.version = version
         /\ api.tags = FallbackTags
         /\ api.attributes = FallbackAttributes

C3_Coalescing ==
  \A v \in Tokens :
    Cardinality({c \in Calls : call[c].pc = "fetch" /\ call[c].version = v}) <= 1

\* C4: a call whose registry request failed (no connection, or a body that is
\* not JSON) resolves with a parseable document that has a version and the
\* embedded fallback tags and attributes; it does not reject.
C4_GracefulDegradation ==
  Returned /\ out.resp.kind \in {"neterr", "notjson"} =>
    /\ out.bytes.kind # "rejected"
    /\ ~ParseFails(out.bytes)
    /\ LET api == JSONparse(out.bytes)
       IN  /\ api.version # Undefined
           /\ api.tags = FallbackTags /\ Len(api.tags) > 0
           /\ api.attributes = FallbackAttributes /\ Len(api.attributes) > 0
           /\ \A i \in 1..Len(api.tags) :
                \E j \in 1..Len(BaselineTags) : api.tags[i] = BaselineTags[j]

C4_Witness ==
  Returned /\ out.resp.kind = "notjson" /\ out.version = "latest"

\* C5: a call that meets a cache record holding bytes that are not a document
\* treats it as absent: it asks the registry and returns a valid document.
C5_CorruptionResilience ==
  Returned /\ out.seen.kind \in {"garbage", "truncated"} =>
    out.fetches >= 1 /\ ~ParseFails(out.bytes)

NothingCached == \A v \in Tokens : disk[v] = Absent

Probed(tool) == probe.tool = tool /\ ~ParseFails(probe.bytes)

\* C8: for every tag named var-x of the document, a lookup by x in any letter
\* case, or by var-x, returns that tag.
C8_ComponentNormalization ==
  Probed("get_component_api_by_version") =>
    LET tags == JSONparse(probe.bytes).tags
    IN  \A i \in 1..Len(tags) :
          LET n == tags[i].name
              x == SubSeq(n, 5, Len(n))
          IN  startsWith(n, "var-") /\ toLowerCase(probe.name) \in {x, n} =>
                probe.result = Found(tags[i])

\* the forms a caller may give a directive with base name b
DirectiveForms(b) == {b, "v-" \o b, "v" \o b}

\* C9 as claimed: for every attribute named v-b of the document, a lookup by
\* b, v-b or vb in any letter case normalises to v-b and returns that
\* attribute.
C9_Original ==
  Probed("get_directive_api_by_version") =>
    LET attrs == JSONparse(probe.bytes).attributes
    IN  \A i \in 1..Len(attrs) : \A b \in Bases :
          attrs[i].name = "v-" \o b
            /\ toLowerCase(probe.name) \in DirectiveForms(b) =>
              /\ directiveTarget(probe.name) = "v-" \o b
              /\ probe.result = Found(attrs[i])

\* C9, amended: that holds for base names that do not begin with v; for a
\* base name beginning with v it holds of the forms v-b and vb, not of b.
C9_DirectiveNormalization ==
  Probed("get_directive_api_by_version") =>
    LET attrs == JSONparse(probe.bytes).attributes
    IN  \A i \in 1..Len(attrs) : \A b \in Bases :
          /\ attrs[i].name = "v-" \o b
          /\ toLowerCase(probe.name) \in
               (IF startsWith(b, "v") THEN {"v-" \o b, "v" \o b}
                ELSE DirectiveForms(b))
          => /\ directiveTarget(probe.name) = "v-" \o b
             /\ probe.result = Found(attrs[i])

C9_Witness ==
  /\ Probed("get_directive_api_by_version")
  /\ probe.name = "VRR"
  /\ probe.result.kind = "entry" /\ probe.result.entry.name = "v-rr"

\* no entry of the parsed document has the name the handler looks for
NoMatch ==
  LET api == JSONparse(probe.bytes)
  IN  IF probe.tool = "get_component_api_by_version"
        THEN \A i \in 1..Len(api.tags) :
               toLowerCase(api.tags[i].name) # componentTarget(probe.name)
        ELSE \A i \in 1..Len(api.attributes) :
               toLowerCase(api.attributes[i].name) # directiveTarget(probe.name)

\* C10: a lookup whose name matches no entry of the document ends in a
\* not-found result, not an exception, and the cache record is the bytes it
\* read.
C10_NotFound ==
  probe.tool # "none" /\ ~ParseFails(probe.bytes) /\ NoMatch =>
    /\ probe.result.kind = "notfound"
    /\ disk[_CACHE_FILE(probe.version)] = probe.bytes

C10_Witness ==
  /\ probe.tool = "get_component_api_by_version" /\ probe.name = "Foo"
  /\ probe.result.kind = "notfound"
  /\ Len(JSONparse(probe.bytes).tags) = Len(BaselineTags)

\* C11: a call that reads the record of a version while another call is
\* writing it never meets a half-written record.
C11_AtomicWrite ==
  Returned /\ (\E c \in Calls : /\ call[c].pc = "writing"
                                /\ call[c].version = out.version) =>
    out.seen # Truncated

\* C12: every cache record that holds a document is stored under the version
\* the document carries, and none is stored under the key "latest".
C12_CacheKeying ==
  \A v \in Tokens :
    disk[_CACHE_FILE(v)].kind = "json" =>
      v # "latest" /\ JSONparse(disk[_CACHE_FILE(v)]).version = v

\* C13: a lookup tool ends in an entry, a text or a not-found result; no
\* parse failure reaches its caller as an exception.
C13_PropagationPolicy ==
  probe.tool # "none" => probe.result.kind # "exception"

\* C14: when a call that fetched a document returns without having stored it,
\* it returns the document and the version has no cache record.
C14_WriteFailureSwallowed ==
  Returned /\ out.tier = "registry" /\ ~out.wrote =>
    /\ out.bytes.kind = "json"
    /\ disk[_CACHE_FILE(out.version)] = Absent

\* C15: every call of cacheApi that has started eventually returns.
C15_Termination ==
  \A c \in Calls : (call[c].pc # "idle") ~> (call[c].pc = "idle")

\* C16: when clearCache has just resolved after removing the directory, no
\* version has a cache record; a call of cacheApi that starts right then met
\* no record and asks the registry, and whatever it returns is not a cache
\* hit.
C16_ClearRemovesAll ==
  /\ out.tier = "cleared" => \A v \in Tokens : disk[_CACHE_FILE(v)] = Absent
  /\ \A c \in Calls :
       call[c].pred.kind = "cleared" =>
         call[c].pc # "idle" /\ call[c].seen = Absent /\ call[c].fetches = 1
  /\ Returned /\ out.pred.kind = "cleared" =>
       out.tier # "cache" /\ out.seen = Absent

C16_Witness ==
  /\ \E c \in Calls : /\ call[c].pred.kind = "cleared"
                       /\ call[c].pc = "fetch"
                       /\ call[c].version = "latest"
  /\ \E d \in Calls : call[d].pc = "unlinked"

\* C17: a document of a registry release that a call for "latest" returns
\* from the cache, with no call in flight, is the document of the release
\* the registry's pointer names.
C17_LatestNotStale ==
  /\ Returned /\ out.version = "latest" /\ out.tier = "cache"
  /\ \A c \in Calls : call[c].pc = "idle"
  /\ ~ParseFails(out.bytes)
  /\ JSONparse(out.bytes).version \in RegistryVersions
  => JSONparse(out.bytes).version = latest

\* C18: the entries of a document returned after a usable registry response
\* are not the embedded baseline list.
C18_PrimaryTier ==
  Returned /\ out.tier = "registry" => out.bytes.text.html.list # "baseline"

\* C19: a call goes on to produce the baseline document for a version only on
\* a response whose versions include that version; on a response that parses but does
\* not hold the concrete version asked for, the call returns the fallback.
C19_DerivedOnlyIfConfirmed ==
  [][\A c \in Calls : \A resp \in Responses(latest) :
       Respond(c, resp) =>
         /\ call'[c].pc = "write" /\ call'[c].realVersion # Undefined =>
               call'[c].realVersion \in resp.versions
         /\ /\ resp.kind = "json"
            /\ call[c].version # "latest"
            /\ call[c].version \notin resp.versions
            => out'.tier = "fallback"]_vars

\* a response that came with a non-success status or a malformed body
Unusable(resp, version) ==
  \/ resp.kind = "notjson"
  \/ /\ resp.kind = "json"
     /\ \/ ~resp.ok
        \/ version = "latest" /\ (~resp.distTags \/ resp.latest = Undefined)

\* C20: a call that gets an unusable response returns the fallback; every
\* document returned, and every document in the cache, carries a version.
C20_TierFailureDetection ==
  /\ [](/\ Returned /\ ~ParseFails(out.bytes) =>
             JSONparse(out.bytes).version # Undefined
        /\ \A v \in Tokens :
             disk[_CACHE_FILE(v)].kind = "json" =>
               JSONparse(disk[_CACHE_FILE(v)]).version # Undefined)
  /\ [][\A c \in Calls : \A resp \in Responses(latest) :
          Respond(c, resp) /\ Unusable(resp, call[c].version) =>
            out'.tier = "fallback"]_vars

C22_ConcreteIdentity ==
  Returned /\ out.version # "latest" /\ out.tier \in {"registry", "fallback"} =>
    ~ParseFails(out.bytes) /\ JSONparse(out.bytes).version = out.version

C22_Witness ==
  /\ Returned /\ out.version = "3.1.0" /\ out.tier = "registry"
  /\ latest = "3.0.0" /\ disk[_CACHE_FILE("latest")].kind = "json"

\* the registry's package document, with its pointer
PackageDocument(resp) ==
  resp.kind = "json" /\ resp.ok /\ resp.distTags /\ resp.latest # Undefined

\* C23: a call for "latest" that gets the package document takes the version
\* its pointer names; it keeps that version through the write, and the
\* document it returns carries it, wherever the pointer has moved since.
C23_LatestResolvedOnce ==
  [][\A c \in Calls :
       /\ call[c].pc = "fetch" /\ call[c].version = "latest"
            /\ call'[c].pc # "fetch" =>
            \A resp \in Responses(latest) :
              PackageDocument(resp) /\ Respond(c, resp) =>
                call'[c].pc = "write" /\ call'[c].realVersion = resp.latest
       /\ call[c].pc \in {"write", "writing", "unlinked"} =>
            IF call'[c].pc = "idle"
              THEN /\ ~ParseFails(out'.bytes)
                   /\ JSONparse(out'.bytes).version = call[c].realVersion
              ELSE call'[c].realVersion = call[c].realVersion]_vars

C23_Witness ==
  /\ Returned /\ out.version = "latest" /\ out.tier = "registry"
  /\ JSONparse(out.bytes).version = "3.0.0" /\ latest = "3.1.0"

\* C24: when a call returns having met a cache record that is not a document,
\* that record has been removed or replaced by a document.
C24_CorruptEvicted ==
  Returned /\ out.seen = Garbage =>
    disk[_CACHE_FILE(out.version)].kind \in {"absent", "json"}

\* C25: when a call that missed the cache returns a document, every call in
\* flight for the same version that already holds its document holds the
\* same one.
C25_SameDocumentForConcurrent ==
  Returned /\ out.tier \in {"registry", "fallback"} =>
    \A d \in Calls :
      call[d].pc \in {"write", "writing", "unlinked"}
        /\ call[d].version = out.version
      => jsonData(call[d]) = out.bytes

\* C26: a cache record that holds a document is changed by no step other than
\* clearCache (or whoever else overwrites the file).
C26_PersistedImmutable ==
  [][\A v \in Tokens :
       /\ disk[_CACHE_FILE(v)].kind = "json"
       /\ ~(\E ok \in BOOLEAN : clearCache(ok))
       /\ ~CorruptRecord(v)
       => disk'[_CACHE_FILE(v)] = disk[_CACHE_FILE(v)]]_vars

\* call c, and no other call, moves on in this step
StepOf(c) ==
  /\ call'[c].pc # call[c].pc
  /\ call'[c].pc # "unlinked"
  /\ \A d \in Calls \ {c} : call'[d].pc = call[d].pc

\* C27: a step of a cacheApi call changes no cache record other than the one
\* of the version the call is for, and changes that one only while writing;
\* a cache hit changes none.
C27_FrameAcrossVersions ==
  [][/\ out'.tier = "cache" => disk' = disk
     /\ \A c \in Calls :
          StepOf(c) /\ disk' # disk =>
            /\ call[c].pc \in {"write", "writing"}
            /\ \A v \in Tokens :
                 disk'[_CACHE_FILE(v)] # disk[_CACHE_FILE(v)] =>
                   v = call[c].version]_vars

C27_Witness ==
  /\ Returned /\ out.tier = "registry" /\ out.wrote /\ out.version = "3.1.0"
  /\ disk[_CACHE_FILE("latest")].kind = "json"
  /\ disk[_CACHE_FILE("latest")] # out.bytes

IsFallbackDocument(bytes) ==
  bytes.kind = "json" /\ bytes.text.html.list = "fallback"

\* C28: no cache record holds a fallback document; a call that returns one
\* asked the registry and wrote nothing; the call that follows it for the
\* same version asks the registry, unless it finds a record another call
\* stored, which is not the fallback.
C28_FallbackNeverPersisted ==
  /\ \A v \in Tokens : ~IsFallbackDocument(disk[_CACHE_FILE(v)])
  /\ Returned /\ out.tier = "fallback" =>
       IsFallbackDocument(out.bytes) /\ ~out.wrote /\ out.fetches = 1
  /\ Returned /\ out.pred.kind = "pred" /\ IsFallbackDocument(out.pred.bytes) =>
       \/ out.fetches = 1
       \/ out.tier = "cache" /\ ~IsFallbackDocument(out.bytes)

C28_Witness ==
  /\ Returned /\ out.pred.kind = "pred" /\ IsFallbackDocument(out.pred.bytes)
  /\ out.tier = "registry" /\ out.wrote
  /\ disk[_CACHE_FILE(out.version)] = out.bytes

\* C29: when get_varlet_api_by_version returns its text for a version, that
\* version has a cache record.
C29_ReportedCachingTookPlace ==
  Returned /\ get_varlet_api_by_version(out.version, out.bytes).text
                = "Downloaded and cached @varlet/ui@" \o out.version =>
    disk[_CACHE_FILE(out.version)] # Absent

\* C30: a lookup by a name that get_varlet_components_list lists for the
\* version returns an entry of the version's document.
C30_ListingAgreesWithLookup ==
  Probed("get_component_api_by_version")
    /\ (\E i \in 1..Len(components) :
          probe.name = get_varlet_components_list(probe.version).lines[i])
  => probe.result.kind = "entry"
====
